---- MODULE Spec2Model ----
(***************************************************************************)
(* Seating-chart widget of app/static/js/seating.js: the drag session, the *)
(* lock and score controls, the layout catalog and the remote calls they   *)
(* issue.  Every handler of the script is one action; a remote call is an  *)
(* element of the bag `pending` from the moment fetch() is called until    *)
(* its response is delivered to the awaiting continuation.                 *)
(***************************************************************************)
EXTENDS Integers, Sequences, FiniteSets, Bags, TLC

\* ------------------------------------------------------------------ bounds
MaxSeats == 2        \* seat cards rendered on the canvas: 0..MaxSeats
MoveSeats == 1       \* ... and where every geometry is explored: 0..MoveSeats
MaxExtent == 2       \* surface and seat extents range over 1..MaxExtent
Far == 2             \* how far outside the surface the pointer travels
MaxPointers == 2     \* pointer ids 1..MaxPointers
MaxInFlight == 2     \* remote calls in flight at once
MaxTotal == 1        \* score totals range over -MaxTotal..MaxTotal
MaxLayouts == 2      \* layouts the server may list: ids 1..MaxLayouts

\* idx * 16 of the reset handler
ResetStep == 16

VARIABLES
    cards,          \* document.querySelectorAll('.seat-card'), in document order: 1..n
    rect,           \* canvas.getBoundingClientRect(): [left, top, width, height]
    offset,         \* card.offsetWidth / card.offsetHeight: [width, height]
    styleLeft,      \* card.style.left, in px
    styleTop,       \* card.style.top, in px
    locked,         \* card.dataset.locked === 'true'
    totalText,      \* textContent of the card's .behaviour-total
    classList,      \* score classes of the card's .name: a subset of {"pos", "neg"}
    drag,           \* the `drag` slot of the closure
    options,        \* layoutSelect.options: sequence of [value, text]
    selectedIndex,  \* layoutSelect.selectedIndex, 1-based; 0 when nothing is selected
    layoutName,     \* layoutNameInput.value
    cfg,            \* window.SEATING_CONFIG: [layoutsListUrl |-> configured or not]
    pending,        \* bag of remote calls in flight
    stored,         \* the server's store: the [x, y] it holds for each seat
    event           \* the handler (or continuation) that ran last, with its inputs

domVars == <<cards, rect, offset, cfg>>
seatVars == <<styleLeft, styleTop, locked>>
scoreVars == <<totalText, classList>>
catalogVars == <<options, selectedIndex, layoutName>>
vars == <<cards, rect, offset, cfg, styleLeft, styleTop, locked, totalText, classList,
          drag, options, selectedIndex, layoutName, pending, stored, event>>

\* ------------------------------------------------------------- value sets
Extents == 1..MaxExtent
PointerIds == 1..MaxPointers
Totals == (0 - MaxTotal)..MaxTotal
Deltas == {1, -1}
ScoreClasses == {"pos", "neg"}

Max(a, b) == IF a >= b THEN a ELSE b
Min(a, b) == IF a <= b THEN a ELSE b

\* let drag = null
NoDrag == [active |-> FALSE]

\* card.dataset.userId of the n-th card, and the card carrying a user id
UserId(card) == card

\* ------------------------------------------------------------ remote calls
InFlight == BagCardinality(pending)
CanSend == InFlight < MaxInFlight
Send(call) == pending (+) SetToBag({call})
Take(call) == pending (-) SetToBag({call})
Calls == BagToSet(pending)
Has(p, f) == f \in DOMAIN p

\* What fetch() resolves to: resp.ok, resp.status and the body resp.json()
\* parses; Unparseable is a body on which resp.json() rejects.
Unparseable == [syntaxError |-> TRUE]
\* The body "null": resp.json() resolves to null
Null == [null |-> TRUE]
Resp(ok, json) == [ok |-> ok, status |-> IF ok THEN 200 ELSE 500, json |-> json]
BasePayloads == {<<>>, [ok |-> TRUE], [ok |-> FALSE], [ok |-> FALSE, error |-> "denied"]}
Responses(extras) ==
    {Resp(ok, json) : ok \in BOOLEAN,
                      json \in {Unparseable} \cup {e @@ b : b \in BasePayloads, e \in extras \cup {<<>>}}}

\* apiPost(url, body), from the response on: the payload it returns, or the
\* Error it throws.
\* A body that parses to null makes the read of payload.ok (of payload.error
\* when resp.ok is false) throw a TypeError.
apiPost(resp) ==
    LET payload == IF resp.json = Unparseable THEN <<>> ELSE resp.json
    IN  IF resp.json = Null
        THEN [threw |-> TRUE, message |-> [typeError |-> TRUE]]
        ELSE IF ~resp.ok \/ (Has(payload, "ok") /\ payload.ok = FALSE)
        THEN [threw |-> TRUE,
              message |-> IF Has(payload, "error") /\ payload.error # ""
                          THEN [text |-> payload.error]
                          ELSE [requestFailed |-> resp.status]]
        ELSE [threw |-> FALSE, payload |-> payload]

\* getCardPosition(card)
getCardPosition(card) ==
    [x |-> styleLeft[card], y |-> styleTop[card],
     locked |-> locked[card], userId |-> UserId(card)]

\* savePosition(card, extra), given what getCardPosition(card) returns: the
\* call handed to apiPost, url seatingUpdateBase + userId, body {x, y, ...extra}
savePositionOf(pos, extra) ==
    [url |-> <<"seatingUpdate", pos.userId>>,
     body |-> extra @@ [x |-> pos.x, y |-> pos.y]]

savePosition(card, extra) == savePositionOf(getCardPosition(card), extra)

\* ------------------------------------------------------------ drag session
\* onPointerDown without the test of dataset.locked
onPointerDownAnyLock(card, btn, pointerId, gx, gy) ==
    /\ event' = [op |-> "pointerdown", card |-> card, btn |-> btn]
    /\ IF card = 0 \/ btn
       THEN drag' = drag
       ELSE drag' = [active |-> TRUE, id |-> pointerId, card |-> card, dx |-> gx, dy |-> gy]
    /\ UNCHANGED <<domVars, seatVars, scoreVars, catalogVars, pending>>

\* onPointerDown(e): the target is the body of `card` (btn = FALSE) or a .btn
\* of it (btn = TRUE); card = 0 is a pointer-down on the bare canvas.  gx, gy:
\* where inside the card the pointer went down (clientX - cardRect.left).
onPointerDown(card, btn, pointerId, gx, gy) ==
    /\ event' = [op |-> "pointerdown", card |-> card, btn |-> btn]
    /\ IF card = 0 \/ btn \/ locked[card]
       THEN drag' = drag
       ELSE drag' = [active |-> TRUE, id |-> pointerId, card |-> card, dx |-> gx, dy |-> gy]
    /\ UNCHANGED <<domVars, seatVars, scoreVars, catalogVars, pending>>

\* The clamp without its lower bound
ClampUpperOnly(v, extent, size) == Min(v, extent - size)

\* The clamp of onPointerMove: Math.max(0, Math.min(v, extent - size))
Clamp(v, extent, size) == Max(0, Min(v, extent - size))

\* onPointerMove without the test of the pointer id
onPointerMoveAnyId(pointerId, clientX, clientY) ==
    /\ event' = [op |-> "pointermove", pointerId |-> pointerId]
    /\ IF ~drag.active
       THEN UNCHANGED <<styleLeft, styleTop>>
       ELSE LET x == clientX - rect.left - drag.dx
                y == clientY - rect.top - drag.dy
            IN  /\ styleLeft' = [styleLeft EXCEPT ![drag.card] = Clamp(x, rect.width, offset.width)]
                /\ styleTop' = [styleTop EXCEPT ![drag.card] = Clamp(y, rect.height, offset.height)]
    /\ UNCHANGED <<domVars, locked, scoreVars, catalogVars, drag, pending>>

\* onPointerMove(e)
onPointerMove(pointerId, clientX, clientY) ==
    /\ event' = [op |-> "pointermove", pointerId |-> pointerId]
    /\ IF ~drag.active \/ pointerId # drag.id
       THEN UNCHANGED <<styleLeft, styleTop>>
       ELSE LET x == clientX - rect.left - drag.dx
                y == clientY - rect.top - drag.dy
            IN  /\ styleLeft' = [styleLeft EXCEPT ![drag.card] = Clamp(x, rect.width, offset.width)]
                /\ styleTop' = [styleTop EXCEPT ![drag.card] = Clamp(y, rect.height, offset.height)]
    /\ UNCHANGED <<domVars, locked, scoreVars, catalogVars, drag, pending>>

\* onPointerUp saving without the drag tag
onPointerUpUntagged(pointerId) ==
    /\ event' = [op |-> "pointerup", pointerId |-> pointerId]
    /\ IF ~drag.active \/ pointerId # drag.id
       THEN UNCHANGED <<drag, pending>>
       ELSE /\ CanSend
            /\ drag' = NoDrag
            /\ pending' = Send(savePosition(drag.card, <<>>))
    /\ UNCHANGED <<domVars, seatVars, scoreVars, catalogVars>>

\* onPointerUp(e)
onPointerUp(pointerId) ==
    /\ event' = [op |-> "pointerup", pointerId |-> pointerId]
    /\ IF ~drag.active \/ pointerId # drag.id
       THEN UNCHANGED <<drag, pending>>
       ELSE /\ CanSend
            /\ drag' = NoDrag
            /\ pending' = Send(savePosition(drag.card, [drag |-> TRUE]))
    /\ UNCHANGED <<domVars, seatVars, scoreVars, catalogVars>>

\* The visibility flush ending the session
onVisibilityChangeEnding ==
    /\ event' = [op |-> "visibilitychange"]
    /\ IF drag.active
       THEN /\ CanSend
            /\ pending' = Send(savePosition(drag.card, [drag |-> TRUE]))
            /\ drag' = NoDrag
       ELSE UNCHANGED <<pending, drag>>
    /\ UNCHANGED <<domVars, seatVars, scoreVars, catalogVars>>

\* document 'visibilitychange' listener
onVisibilityChange ==
    /\ event' = [op |-> "visibilitychange"]
    /\ IF drag.active
       THEN /\ CanSend
            /\ pending' = Send(savePosition(drag.card, [drag |-> TRUE]))
       ELSE pending' = pending
    /\ UNCHANGED <<domVars, seatVars, scoreVars, catalogVars, drag>>

\* The continuation saving the seat again when the answered call did not
\* carry the position the seat is displayed at
onUpdateResponseReconcile(call, resp) ==
    LET card == call.url[2]
        stale == call.body.x # styleLeft[card] \/ call.body.y # styleTop[card]
    IN  /\ pending' = IF stale THEN Take(call) (+) SetToBag({savePosition(card, <<>>)})
                      ELSE Take(call)
        /\ event' = [op |-> "updateResponse", logged |-> apiPost(resp).threw]
        /\ UNCHANGED <<domVars, seatVars, scoreVars, catalogVars, drag>>

\* The continuation issuing the call again when it failed
onUpdateResponseRetry(call, resp) ==
    /\ pending' = IF apiPost(resp).threw THEN pending ELSE Take(call)
    /\ event' = [op |-> "updateResponse", logged |-> apiPost(resp).threw]
    /\ UNCHANGED <<domVars, seatVars, scoreVars, catalogVars, drag>>

\* The continuation of a savePosition call (pointer-up, visibility flush, lock
\* toggle, reset): a failure is logged with console.error, nothing else.
onUpdateResponse(call, resp) ==
    /\ pending' = Take(call)
    /\ event' = [op |-> "updateResponse", logged |-> apiPost(resp).threw]
    /\ UNCHANGED <<domVars, seatVars, scoreVars, catalogVars, drag>>

\* ------------------------------------------------------ lock and bulk lock
\* The lock button locking the seat whatever its flag was
onLockClickSet(card) ==
    /\ CanSend
    /\ locked' = [locked EXCEPT ![card] = TRUE]
    /\ pending' = Send(savePosition(card, [locked |-> TRUE]))
    /\ event' = [op |-> "lockClick", card |-> card]
    /\ UNCHANGED <<domVars, styleLeft, styleTop, scoreVars, catalogVars, drag>>

\* canvas 'click' listener, target inside .lock-btn
onLockClick(card) ==
    LET newLocked == ~locked[card]
    IN  /\ CanSend
        /\ locked' = [locked EXCEPT ![card] = newLocked]
        /\ pending' = Send(savePosition(card, [locked |-> newLocked]))
        /\ event' = [op |-> "lockClick", card |-> card]
        /\ UNCHANGED <<domVars, styleLeft, styleTop, scoreVars, catalogVars, drag>>

\* bulkLock persisting with one update call per card
bulkLockPerSeat(flag) ==
    /\ InFlight + Cardinality(cards) <= MaxInFlight
    /\ locked' = [card \in cards |-> flag]
    /\ pending' = pending (+) SetToBag({savePosition(card, [locked |-> flag]) : card \in cards})
    /\ event' = [op |-> "bulkLock", flag |-> flag]
    /\ UNCHANGED <<domVars, styleLeft, styleTop, scoreVars, catalogVars, drag>>

\* bulkLock(flag)
bulkLock(flag) ==
    /\ CanSend
    /\ locked' = [card \in cards |-> flag]
    /\ pending' = Send([url |-> <<"bulk_lock", 0>>, body |-> [locked |-> flag]])
    /\ event' = [op |-> "bulkLock", flag |-> flag]
    /\ UNCHANGED <<domVars, styleLeft, styleTop, scoreVars, catalogVars, drag>>

\* The continuation of bulkLock: a failure is logged.
onBulkLockResponse(call, resp) ==
    /\ pending' = Take(call)
    /\ event' = [op |-> "bulkLockResponse", logged |-> apiPost(resp).threw]
    /\ UNCHANGED <<domVars, seatVars, scoreVars, catalogVars, drag>>

\* #resetLayout 'click' listener: card idx (from 0) goes to idx * 16 on both
\* axes, is unlocked and saved, one call per card.
onResetClick ==
    /\ InFlight + Cardinality(cards) <= MaxInFlight
    /\ styleLeft' = [card \in cards |-> (card - 1) * ResetStep]
    /\ styleTop' = [card \in cards |-> (card - 1) * ResetStep]
    /\ locked' = [card \in cards |-> FALSE]
    /\ pending' = pending (+) SetToBag(
           {savePositionOf([x |-> (card - 1) * ResetStep, y |-> (card - 1) * ResetStep,
                            locked |-> FALSE, userId |-> UserId(card)],
                           [locked |-> FALSE]) : card \in cards})
    /\ event' = [op |-> "resetClick"]
    /\ UNCHANGED <<domVars, scoreVars, catalogVars, drag>>

\* ------------------------------------------------------------------ score
\* updateScoreVisuals without classList.remove
updateScoreVisualsKeep(classes, total) ==
    LET withPos == IF total > 0 THEN classes \cup {"pos"} ELSE classes
    IN  IF total < 0 THEN withPos \cup {"neg"} ELSE withPos

\* updateScoreVisuals(card, total), on the class list of the card's .name
updateScoreVisuals(classes, total) ==
    LET removed == classes \ {"pos", "neg"}
        withPos == IF total > 0 THEN removed \cup {"pos"} ELSE removed
    IN  IF total < 0 THEN withPos \cup {"neg"} ELSE withPos

\* parseInt(payload.total, 10) || 0
parseTotal(payload) == IF Has(payload, "total") THEN payload.total ELSE 0

\* canvas 'click' listener, target a .behaviour-plus / .behaviour-minus
\* button: up to the await of apiPost.
onBehaviourClick(card, delta) ==
    /\ CanSend
    /\ pending' = Send([url |-> <<"behaviourAdjust", UserId(card)>>,
                        body |-> [delta |-> delta], card |-> card])
    /\ event' = [op |-> "behaviourClick", card |-> card, delta |-> delta]
    /\ UNCHANGED <<domVars, seatVars, scoreVars, catalogVars, drag>>

\* The continuation adding the delta to the displayed total
onAdjustResponseLocal(call, resp) ==
    LET r == apiPost(resp)
    IN  /\ pending' = Take(call)
        /\ event' = [op |-> "adjustResponse", resp |-> resp]
        /\ IF r.threw
           THEN UNCHANGED scoreVars
           ELSE LET total == totalText[call.card] + call.body.delta
                IN  /\ totalText' = [totalText EXCEPT ![call.card] = total]
                    /\ classList' = [classList EXCEPT
                                       ![call.card] = updateScoreVisuals(classList[call.card], total)]
        /\ UNCHANGED <<domVars, seatVars, catalogVars, drag>>

\* ... and from the await on
onAdjustResponse(call, resp) ==
    LET r == apiPost(resp)
    IN  /\ pending' = Take(call)
        /\ event' = [op |-> "adjustResponse", resp |-> resp]
        /\ IF r.threw
           THEN UNCHANGED scoreVars
           ELSE LET total == parseTotal(r.payload)
                IN  /\ totalText' = [totalText EXCEPT ![call.card] = total]
                    /\ classList' = [classList EXCEPT
                                       ![call.card] = updateScoreVisuals(classList[call.card], total)]
        /\ UNCHANGED <<domVars, seatVars, catalogVars, drag>>

\* --------------------------------------------------------- layout catalog
\* Names of the layouts the server may hold, and String(layout.id)
NameList == <<"A", "B", "C", "D">>
IdList == <<"1", "2", "3", "4">>
LayoutIds == 1..MaxLayouts

\* What the user may have typed into #layoutName
TypedNames == {"", " ", " A "} \cup {NameList[i] : i \in LayoutIds}

\* String.prototype.trim on the typed names
Trim(s) == CASE s = " " -> ""
             [] s = " A " -> "A"
             [] OTHER -> s

\* '<option value="">Select saved layout...</option>' (the text ends in an
\* ellipsis character, written here as three dots)
Placeholder == [value |-> "", text |-> "Select saved layout..."]

\* layoutSelect.value and layoutSelect.selectedOptions[0]?.text || ''
SelectValue(opts, index) == IF index = 0 THEN "" ELSE opts[index].value
SelectedText(opts, index) == IF index = 0 THEN "" ELSE opts[index].text

\* layoutSelect.value = v: the first option with that value, none when no
\* option has it
SetSelectValue(opts, v) ==
    IF \E i \in 1..Len(opts) : opts[i].value = v
    THEN CHOOSE i \in 1..Len(opts) : opts[i].value = v /\ \A j \in 1..(i - 1) : opts[j].value # v
    ELSE 0

\* The body of refreshLayouts() after its two awaits, on an array `layouts`:
\* the new options and the new selected index.
RebuildOptions(opts, index, layouts) ==
    LET previous == SelectValue(opts, index)
        rebuilt == <<Placeholder>> \o
                   [i \in 1..Len(layouts) |-> [value |-> IdList[layouts[i].id],
                                               text |-> layouts[i].name]]
    IN  [options |-> rebuilt,
         index |-> IF previous # "" THEN SetSelectValue(rebuilt, previous) ELSE 1]

\* handleSaveLayout() after `await refreshLayouts()`: re-select by name
Reselect(opts, index, name) ==
    IF \E i \in 1..Len(opts) : opts[i].text = name
    THEN LET m == CHOOSE i \in 1..Len(opts) :
                     opts[i].text = name /\ \A j \in 1..(i - 1) : opts[j].text # name
         IN  SetSelectValue(opts, opts[m].value)
    ELSE index

ListCall(ctx) == [url |-> <<"layoutsList", 0>>] @@ ctx

\* handleSaveLayout going on after a declined confirm()
handleSaveLayoutAnyAnswer(answer) ==
    LET rawName == Trim(layoutName)
        selectedName == SelectedText(options, selectedIndex)
        name == IF rawName # "" THEN rawName ELSE selectedName
        asks == rawName = "" /\ SelectValue(options, selectedIndex) # ""
        overwrite == asks /\ answer
    IN  /\ IF name = ""
           THEN /\ event' = [op |-> "saveClick", confirm |-> "none",
                             alert |-> "Enter a layout name first."]
                /\ pending' = pending
           ELSE /\ CanSend
                /\ event' = [op |-> "saveClick",
                             confirm |-> IF ~asks THEN "none"
                                         ELSE IF answer THEN "accepted" ELSE "declined",
                             alert |-> ""]
                /\ pending' = Send([url |-> <<"layoutsSave", 0>>,
                                    body |-> [name |-> name, overwrite |-> overwrite]])
        /\ UNCHANGED <<domVars, seatVars, scoreVars, catalogVars, drag>>

\* handleSaveLayout(), up to the await of apiPost; answer is what confirm()
\* returns when it is shown.
handleSaveLayout(answer) ==
    LET rawName == Trim(layoutName)
        selectedName == SelectedText(options, selectedIndex)
        name == IF rawName # "" THEN rawName ELSE selectedName
        asks == rawName = "" /\ SelectValue(options, selectedIndex) # ""
        overwrite == asks /\ answer
    IN  /\ IF name = ""
           THEN /\ event' = [op |-> "saveClick", confirm |-> "none",
                             alert |-> "Enter a layout name first."]
                /\ pending' = pending
           ELSE IF asks /\ ~overwrite
           THEN /\ event' = [op |-> "saveClick", confirm |-> "declined", alert |-> ""]
                /\ pending' = pending
           ELSE /\ CanSend
                /\ event' = [op |-> "saveClick",
                             confirm |-> IF asks THEN "accepted" ELSE "none", alert |-> ""]
                /\ pending' = Send([url |-> <<"layoutsSave", 0>>,
                                    body |-> [name |-> name, overwrite |-> overwrite]])
        /\ UNCHANGED <<domVars, seatVars, scoreVars, catalogVars, drag>>

\* ... and from the await on, up to the fetch of refreshLayouts() (or to the
\* end, when refreshLayouts() returns at once).
onSaveResponse(call, resp) ==
    LET r == apiPost(resp)
        name == call.body.name
    IN  /\ IF r.threw
           THEN /\ event' = [op |-> "saveResponse", alert |-> r.message]
                /\ pending' = Take(call)
                /\ UNCHANGED catalogVars
           ELSE /\ layoutName' = ""
                /\ options' = options
                /\ IF cfg.layoutsListUrl
                   THEN /\ pending' = Take(call) (+) SetToBag({ListCall([saved |-> name])})
                        /\ selectedIndex' = selectedIndex
                        /\ event' = [op |-> "saveResponse", alert |-> [none |-> TRUE]]
                   ELSE /\ pending' = Take(call)
                        /\ selectedIndex' = Reselect(options, selectedIndex, name)
                        /\ event' = [op |-> "saveResponse", alert |-> [saved |-> name]]
        /\ UNCHANGED <<domVars, seatVars, scoreVars, drag>>

\* refreshLayouts() from its fetch on, and the rest of handleSaveLayout() when
\* it is the one awaiting.  result: the fetch rejected, the body does not
\* parse, the body is no array, or the array of layouts.
onListResponse(call, result) ==
    LET rebuilt == IF Has(result, "layouts")
                   THEN RebuildOptions(options, selectedIndex, result.layouts)
                   ELSE [options |-> options, index |-> selectedIndex]
    IN  /\ pending' = Take(call)
        /\ options' = rebuilt.options
        /\ IF Has(call, "saved")
           THEN /\ selectedIndex' = Reselect(rebuilt.options, rebuilt.index, call.saved)
                /\ event' = [op |-> "listResponse", result |-> result,
                             alert |-> [saved |-> call.saved]]
           ELSE /\ selectedIndex' = rebuilt.index
                /\ event' = [op |-> "listResponse", result |-> result,
                             alert |-> [none |-> TRUE]]
        /\ UNCHANGED <<domVars, seatVars, scoreVars, layoutName, drag>>

\* parseFloat(p.x) || 0, on an entry of a load response
parseCoord(p, field) == IF Has(p, field) THEN p[field] ELSE 0

\* applyPositions putting every card the response lacks back at the origin
applyPositionsAll(positions) ==
    LET hits(card) == {i \in 1..Len(positions) : positions[i].user_id = UserId(card)}
        byId(card) == positions[CHOOSE i \in hits(card) : \A j \in hits(card) : j <= i]
    IN  [left |-> [card \in cards |-> IF hits(card) = {} THEN 0
                                      ELSE parseCoord(byId(card), "x")],
         top |-> [card \in cards |-> IF hits(card) = {} THEN 0
                                     ELSE parseCoord(byId(card), "y")],
         locked |-> [card \in cards |-> IF hits(card) = {} THEN FALSE
                                        ELSE byId(card).locked]]

\* applyPositions(positions): the styles and lock flags it leaves.  byId is
\* the Map it builds: the last entry of a user id wins.
applyPositions(positions) ==
    LET hits(card) == {i \in 1..Len(positions) : positions[i].user_id = UserId(card)}
        byId(card) == positions[CHOOSE i \in hits(card) : \A j \in hits(card) : j <= i]
    IN  [left |-> [card \in cards |-> IF hits(card) = {} THEN styleLeft[card]
                                      ELSE parseCoord(byId(card), "x")],
         top |-> [card \in cards |-> IF hits(card) = {} THEN styleTop[card]
                                     ELSE parseCoord(byId(card), "y")],
         locked |-> [card \in cards |-> IF hits(card) = {} THEN locked[card]
                                        ELSE byId(card).locked]]

\* handleLoadLayout without the test of the selected id
handleLoadLayoutAnyId ==
    /\ CanSend
    /\ event' = [op |-> "loadClick", alert |-> ""]
    /\ pending' = Send([url |-> <<"layoutsLoad", SelectValue(options, selectedIndex)>>,
                        body |-> <<>>])
    /\ UNCHANGED <<domVars, seatVars, scoreVars, catalogVars, drag>>

\* handleLoadLayout(), up to the await of apiPost
handleLoadLayout ==
    LET id == SelectValue(options, selectedIndex)
    IN  /\ IF id = ""
           THEN /\ event' = [op |-> "loadClick", alert |-> "Select a layout to load."]
                /\ pending' = pending
           ELSE /\ CanSend
                /\ event' = [op |-> "loadClick", alert |-> ""]
                /\ pending' = Send([url |-> <<"layoutsLoad", id>>, body |-> <<>>])
        /\ UNCHANGED <<domVars, seatVars, scoreVars, catalogVars, drag>>

\* The continuation applying the positions of a failed response as well
onLoadResponseAlways(call, resp) ==
    LET r == apiPost(resp)
        payload == IF resp.json = Unparseable THEN <<>> ELSE resp.json
        applied == applyPositions(IF Has(payload, "positions") THEN payload.positions ELSE <<>>)
    IN  /\ pending' = Take(call)
        /\ event' = [op |-> "loadResponse", resp |-> resp,
                     alert |-> IF r.threw THEN r.message ELSE [none |-> TRUE]]
        /\ styleLeft' = applied.left
        /\ styleTop' = applied.top
        /\ locked' = applied.locked
        /\ UNCHANGED <<domVars, scoreVars, catalogVars, drag>>

\* ... and from the await on
onLoadResponse(call, resp) ==
    LET r == apiPost(resp)
    IN  /\ pending' = Take(call)
        /\ IF r.threw
           THEN /\ event' = [op |-> "loadResponse", resp |-> resp, alert |-> r.message]
                /\ UNCHANGED seatVars
           ELSE LET applied == applyPositions(IF Has(r.payload, "positions")
                                              THEN r.payload.positions ELSE <<>>)
                IN  /\ event' = [op |-> "loadResponse", resp |-> resp, alert |-> [none |-> TRUE]]
                    /\ styleLeft' = applied.left
                    /\ styleTop' = applied.top
                    /\ locked' = applied.locked
        /\ UNCHANGED <<domVars, scoreVars, catalogVars, drag>>

\* ---------------------------------------------------------------- actions
PointerDown ==
    \E card \in cards \cup {0}, btn \in BOOLEAN, pointerId \in PointerIds,
       gx \in 0..(offset.width - 1), gy \in 0..(offset.height - 1) :
        /\ card = 0 => (~btn /\ gx = 0 /\ gy = 0)
        /\ onPointerDown(card, btn, pointerId, gx, gy)
        /\ UNCHANGED stored

\* Pointer coordinates: across the surface, its edges, and Far beyond them.
ClientXs == {rect.left - Far, rect.left + rect.width + Far} \cup (rect.left..(rect.left + rect.width))
ClientYs == {rect.top - Far, rect.top + rect.height + Far} \cup (rect.top..(rect.top + rect.height))

PointerMove ==
    \E pointerId \in PointerIds, clientX \in ClientXs, clientY \in ClientYs :
        onPointerMove(pointerId, clientX, clientY) /\ UNCHANGED stored

\* Pointer moves along the top edge of the surface
PointerSweep ==
    \E pointerId \in PointerIds, clientX \in ClientXs :
        onPointerMove(pointerId, clientX, rect.top) /\ UNCHANGED stored

PointerUp == \E pointerId \in PointerIds : onPointerUp(pointerId) /\ UNCHANGED stored

VisibilityChange == onVisibilityChange /\ UNCHANGED stored

\* An update call answered, seen from the page only
UpdateResponse ==
    \E call \in Calls, resp \in Responses({}) :
        /\ call.url[1] = "seatingUpdate"
        /\ onUpdateResponse(call, resp)
        /\ UNCHANGED stored

\* The server's side of an update call: the x and y of a call that succeeds
\* are merged into the store of the seat the url names.
serverMerge(call, resp) ==
    IF apiPost(resp).threw THEN stored
    ELSE [stored EXCEPT ![call.url[2]] = [x |-> call.body.x, y |-> call.body.y]]

\* An update call answered with success, with what the server did to answer
\* it: calls are answered in the order the server handles them, which need
\* not be the order they were issued in.
UpdateMerged ==
    \E call \in Calls, resp \in {r \in Responses({}) : ~apiPost(r).threw} :
        /\ call.url[1] = "seatingUpdate"
        /\ onUpdateResponse(call, resp)
        /\ stored' = serverMerge(call, resp)

LockClick == \E card \in cards : onLockClick(card) /\ UNCHANGED stored

BulkLock == \E flag \in BOOLEAN : bulkLock(flag) /\ UNCHANGED stored

BulkLockResponse ==
    \E call \in Calls, resp \in Responses({}) :
        /\ call.url[1] = "bulk_lock"
        /\ onBulkLockResponse(call, resp)
        /\ UNCHANGED stored

ResetClick == onResetClick /\ UNCHANGED stored

BehaviourClick == \E card \in cards, delta \in Deltas : onBehaviourClick(card, delta) /\ UNCHANGED stored

AdjustResponse ==
    \E call \in Calls, resp \in Responses({[total |-> t] : t \in Totals}) :
        /\ call.url[1] = "behaviourAdjust"
        /\ onAdjustResponse(call, resp)
        /\ UNCHANGED stored

\* The user picks an entry of #layoutSelect, or edits #layoutName.
SelectOption ==
    \E i \in 1..Len(options) :
        /\ selectedIndex' = i
        /\ event' = [op |-> "select", index |-> i]
        /\ UNCHANGED <<domVars, seatVars, scoreVars, options, layoutName, drag, pending, stored>>

TypeName ==
    \E typed \in TypedNames :
        /\ layoutName' = typed
        /\ event' = [op |-> "type"]
        /\ UNCHANGED <<domVars, seatVars, scoreVars, options, selectedIndex, drag, pending, stored>>

SaveClick == \E answer \in BOOLEAN : handleSaveLayout(answer) /\ UNCHANGED stored

SaveResponse ==
    \E call \in Calls, resp \in Responses({}) :
        /\ call.url[1] = "layoutsSave"
        /\ onSaveResponse(call, resp)
        /\ UNCHANGED stored

\* The layouts of a list response: any of the server's, by ascending id.
RECURSIVE Ascending(_)
Ascending(S) ==
    IF S = {} THEN <<>>
    ELSE LET m == CHOOSE x \in S : \A y \in S : x <= y
         IN  <<[id |-> m, name |-> NameList[m]]>> \o Ascending(S \ {m})

ListResults ==
    {[rejected |-> TRUE], Unparseable, [error |-> "denied"]}
        \cup {[layouts |-> Ascending(S)] : S \in SUBSET LayoutIds}

ListResponse ==
    \E call \in Calls, result \in ListResults :
        /\ call.url[1] = "layoutsList"
        /\ onListResponse(call, result)
        /\ UNCHANGED stored

LoadClick == handleLoadLayout /\ UNCHANGED stored

\* The positions of a load response: one entry per owner, for seats on screen
\* and for one that is not; an entry may lack its coordinates.
LoadEntries(id) ==
    IF id > MaxSeats
    THEN {[user_id |-> id, x |-> MaxExtent, y |-> 0, locked |-> TRUE]}
    ELSE {[user_id |-> id, locked |-> TRUE],
          [user_id |-> id, x |-> 0 - Far, y |-> MaxExtent, locked |-> TRUE],
          [user_id |-> id, x |-> MaxExtent, y |-> 0, locked |-> FALSE]}

RECURSIVE PositionLists(_)
PositionLists(n) ==
    IF n = 0 THEN {<<>>}
    ELSE LET shorter == PositionLists(n - 1)
         IN  shorter \cup {p \o <<e>> : p \in shorter, e \in LoadEntries(n)}

LoadResponses ==
    Responses({[positions |-> <<[user_id |-> 1, x |-> 0 - Far, y |-> MaxExtent, locked |-> TRUE]>>]})
        \cup {Resp(TRUE, [ok |-> TRUE, positions |-> p]) : p \in PositionLists(MaxSeats + 1)}

LoadResponse ==
    \E call \in Calls, resp \in LoadResponses :
        /\ call.url[1] = "layoutsLoad"
        /\ onLoadResponse(call, resp)
        /\ UNCHANGED stored

\* Any call handed to apiPost, and any response fetch() may resolve to: the
\* transport status, and a body that does not parse, parses to null, or
\* parses to an object with or without ok, error and further fields.
ApiCalls == {[url |-> <<"bulk_lock", 0>>, body |-> [locked |-> flag]] : flag \in BOOLEAN}

ApiPayloads ==
    {o @@ e @@ t : o \in {<<>>, [ok |-> TRUE], [ok |-> FALSE]},
                   e \in {<<>>, [error |-> ""], [error |-> "denied"]},
                   t \in {<<>>, [total |-> 1]}}

ApiResponses ==
    [ok : {TRUE}, status : {200, 201}, json : ApiPayloads \cup {Unparseable, Null}]
        \cup [ok : {FALSE}, status : {404, 500}, json : ApiPayloads \cup {Unparseable, Null}]

Fetch ==
    \E call \in ApiCalls :
        /\ CanSend
        /\ pending' = Send(call)
        /\ event' = [op |-> "fetch"]
        /\ UNCHANGED <<domVars, seatVars, scoreVars, catalogVars, drag, stored>>

ApiPost ==
    \E call \in Calls, resp \in ApiResponses :
        /\ pending' = Take(call)
        /\ event' = [op |-> "apiPost", resp |-> resp, result |-> apiPost(resp)]
        /\ UNCHANGED <<domVars, seatVars, scoreVars, catalogVars, drag, stored>>

\* ------------------------------------------------------------------- init
\* The page as rendered, after the script has run: the score classes are
\* those updateScoreVisuals leaves for the seeded total, and refreshLayouts()
\* has issued its fetch when a list url is configured.
InitWith(Counts, Widths, Heights, SeatWidths, SeatHeights, Xs, Ys, Locks, Tots, ListUrls) ==
    /\ \E n \in Counts : cards = 1..n
    /\ rect \in [left : {1}, top : {0}, width : Widths, height : Heights]
    /\ offset \in [width : SeatWidths, height : SeatHeights]
    /\ cfg \in [layoutsListUrl : ListUrls]
    /\ styleLeft \in [cards -> Xs]
    /\ styleTop \in [cards -> Ys]
    /\ locked \in [cards -> Locks]
    /\ totalText \in [cards -> Tots]
    /\ \E rendered \in [cards -> SUBSET ScoreClasses] :
          classList = [card \in cards |-> updateScoreVisuals(rendered[card], totalText[card])]
    /\ drag = NoDrag
    /\ options = <<>>
    /\ selectedIndex = 0
    /\ layoutName = ""
    /\ pending = IF cfg.layoutsListUrl THEN SetToBag({ListCall(<<>>)}) ELSE EmptyBag
    /\ stored = [card \in cards |-> [x |-> styleLeft[card], y |-> styleTop[card]]]
    /\ event = [op |-> "init"]

Init == InitWith(0..MaxSeats, Extents, Extents, Extents, Extents, 0..MaxExtent, 0..MaxExtent,
                 BOOLEAN, Totals, BOOLEAN)

\* The widest surface, one unit wider than the seats and as high as they are;
\* the seats rendered at its origin; no layout catalog.
InitRow(Locks, Tots) ==
    InitWith(0..MaxSeats, {MaxExtent}, {1}, {MaxExtent - 1}, {1}, {0}, {0}, Locks, Tots, {FALSE})

NextDrag ==
    \/ PointerDown
    \/ PointerMove
    \/ PointerUp
    \/ VisibilityChange
    \/ UpdateResponse

SpecDrag == InitRow(BOOLEAN, {0}) /\ [][NextDrag]_vars

NextMove ==
    \/ PointerDown
    \/ PointerMove

SpecMove ==
    /\ InitWith(0..MoveSeats, Extents, Extents, Extents, Extents, {0}, {0}, {FALSE}, {0}, {FALSE})
    /\ [][NextMove]_vars

NextScore ==
    \/ BehaviourClick
    \/ AdjustResponse

SpecScore == InitRow({FALSE}, Totals) /\ [][NextScore]_vars

NextLock ==
    \/ LockClick
    \/ BulkLock
    \/ BulkLockResponse
    \/ ResetClick
    \/ UpdateResponse

SpecLock == InitRow(BOOLEAN, {0}) /\ [][NextLock]_vars

NextCatalog ==
    \/ SelectOption
    \/ TypeName
    \/ SaveClick
    \/ SaveResponse
    \/ ListResponse

SpecCatalog ==
    /\ InitWith({MaxSeats}, {MaxExtent}, {1}, {MaxExtent - 1}, {1}, {0}, {0}, {FALSE}, {0}, {TRUE})
    /\ [][NextCatalog]_vars

NextLoad ==
    \/ SelectOption
    \/ ListResponse
    \/ LoadClick
    \/ LoadResponse

SpecLoad ==
    /\ InitWith(0..MaxSeats, {MaxExtent}, {1}, {MaxExtent - 1}, {1}, {MaxExtent}, {0}, BOOLEAN, {0}, {TRUE})
    /\ [][NextLoad]_vars

\* The handlers that place seats without a pointer: reset and layout load.
\* The seats fit the surface and are rendered at its origin.
NextPlace ==
    \/ ResetClick
    \/ UpdateResponse
    \/ SelectOption
    \/ ListResponse
    \/ LoadClick
    \/ LoadResponse

SpecPlace ==
    /\ InitWith(0..MaxSeats, {MaxExtent}, {1}, {MaxExtent - 1}, {1}, {0}, {0}, {FALSE}, {0}, {TRUE})
    /\ [][NextPlace]_vars

\* The calls whose failure is only logged: drag save, lock save, bulk lock.
NextSave ==
    \/ PointerDown
    \/ PointerSweep
    \/ PointerUp
    \/ LockClick
    \/ BulkLock
    \/ UpdateResponse
    \/ BulkLockResponse

SpecSave ==
    /\ InitWith(0..MoveSeats, {MaxExtent}, {1}, {MaxExtent - 1}, {1}, {0}, {0}, {FALSE}, {0}, {FALSE})
    /\ [][NextSave]_vars

\* apiPost on its own
NextApi ==
    \/ Fetch
    \/ ApiPost

SpecApi ==
    /\ InitWith({0}, {MaxExtent}, {1}, {MaxExtent - 1}, {1}, {0}, {0}, {FALSE}, {0}, {FALSE})
    /\ [][NextApi]_vars

\* The drag session with the server's store
NextSync ==
    \/ PointerDown
    \/ PointerSweep
    \/ PointerUp
    \/ VisibilityChange
    \/ UpdateMerged

SpecSync ==
    /\ InitWith(0..MoveSeats, {MaxExtent}, {1}, {MaxExtent - 1}, {1}, {0}, {0}, {FALSE}, {0}, {FALSE})
    /\ [][NextSync]_vars

\* A drag session while a layout is being loaded
NextHold ==
    \/ PointerDown
    \/ PointerSweep
    \/ PointerUp
    \/ UpdateResponse
    \/ SelectOption
    \/ ListResponse
    \/ LoadClick
    \/ LoadResponse

SpecHold ==
    /\ InitWith(0..MoveSeats, {MaxExtent}, {1}, {MaxExtent - 1}, {1}, {0}, {0}, {FALSE}, {0}, {TRUE})
    /\ [][NextHold]_vars

\* Every handler and continuation of the script.
Next ==
    \/ PointerDown
    \/ PointerMove
    \/ PointerUp
    \/ VisibilityChange
    \/ UpdateResponse
    \/ UpdateMerged
    \/ LockClick
    \/ BulkLock
    \/ BulkLockResponse
    \/ ResetClick
    \/ BehaviourClick
    \/ AdjustResponse
    \/ SelectOption
    \/ TypeName
    \/ SaveClick
    \/ SaveResponse
    \/ ListResponse
    \/ LoadClick
    \/ LoadResponse

Spec == Init /\ [][Next]_vars

\* ================================================================== claims
\* What a step tells about the response it delivered
Succeeded(resp) ==
    /\ resp.ok
    /\ ~(resp.json # Unparseable /\ Has(resp.json, "ok") /\ resp.json.ok = FALSE)
CarriesTotal(resp) == resp.json # Unparseable /\ Has(resp.json, "total")

\* The call whose response the step delivered
TakenCall == CHOOSE c \in Calls : CopiesIn(c, pending') < CopiesIn(c, pending)

\* A pointer-move (pointer-up) step for the pointer of the active session
MatchingMove == event'.op = "pointermove" /\ drag.active /\ event'.pointerId = drag.id
MatchingUp == event'.op = "pointerup" /\ drag.active /\ event'.pointerId = drag.id

\* ---- C1
\* C1, as stated: after every pointer-move handled for the active session the
\* dragged seat has 0 <= x <= surfaceWidth - seatWidth and
\* 0 <= y <= surfaceHeight - seatHeight, whatever the extents.
C1_WithinSurface ==
    [][MatchingMove =>
          /\ 0 <= styleLeft'[drag.card]
          /\ styleLeft'[drag.card] <= rect.width - offset.width
          /\ 0 <= styleTop'[drag.card]
          /\ styleTop'[drag.card] <= rect.height - offset.height]_vars

\* C1, amended: after every pointer-move handled for the active session the
\* dragged seat has 0 <= x <= max(0, surfaceWidth - seatWidth) and
\* 0 <= y <= max(0, surfaceHeight - seatHeight): inside the surface when the
\* seat fits, at 0 on an axis on which the seat is larger than the surface.
C1_Clamped ==
    [][MatchingMove =>
          /\ 0 <= styleLeft'[drag.card]
          /\ styleLeft'[drag.card] <= Max(0, rect.width - offset.width)
          /\ 0 <= styleTop'[drag.card]
          /\ styleTop'[drag.card] <= Max(0, rect.height - offset.height)]_vars

\* A move far beyond the right edge left the seat at the last position that fits.
C1_Witness ==
    /\ event.op = "pointermove" /\ drag.active /\ event.pointerId = drag.id
    /\ rect.width > offset.width
    /\ styleLeft[drag.card] = rect.width - offset.width
    /\ styleTop[drag.card] = 0

\* ---- C2
\* C2: a pointer-down on a locked seat leaves the session slot, every seat
\* position and the calls in flight as they were; and while no session is
\* active, the move and up events that follow change none of them either.
C2_LockedNeverDrags ==
    [][/\ (event'.op = "pointerdown" /\ event'.card # 0 /\ locked[event'.card])
            => UNCHANGED <<drag, styleLeft, styleTop, pending>>
       /\ (event'.op \in {"pointermove", "pointerup"} /\ ~drag.active)
            => UNCHANGED <<drag, styleLeft, styleTop, pending>>]_vars

\* A pointer-down on the body of a locked seat, with a session on another seat.
C2_Witness ==
    /\ event.op = "pointerdown" /\ event.card # 0 /\ ~event.btn
    /\ locked[event.card]
    /\ drag.active /\ drag.card # event.card

\* ---- C3
\* C3: within a drag, the pointer-down and the moves issue no call, and the
\* pointer-up of the session's pointer ends the session and issues exactly one
\* call: the update of that seat, tagged drag, carrying the position the seat
\* has; a pointer-up of another pointer issues none.
C3_OneSavePerDrag ==
    [][/\ event'.op \in {"pointerdown", "pointermove"} => pending' = pending
       /\ (event'.op = "pointerup" /\ ~MatchingUp) => pending' = pending
       /\ MatchingUp =>
            /\ drag' = NoDrag
            /\ InFlight' = InFlight + 1
            /\ pending' = pending (+) SetToBag(
                  {[url |-> <<"seatingUpdate", UserId(drag.card)>>,
                    body |-> [x |-> styleLeft'[drag.card], y |-> styleTop'[drag.card],
                              drag |-> TRUE]]})]_vars

\* A session has just ended with its save in flight, the seat away from where
\* it was rendered.
C3_Witness ==
    /\ event.op = "pointerup" /\ ~drag.active
    /\ \E c \in Calls : /\ c.url[1] = "seatingUpdate"
                        /\ Has(c.body, "drag")
                        /\ c.body.x = styleLeft[c.url[2]]
                        /\ c.body.x > 0

\* ---- C4
\* C4, as stated: when a score-adjust call fails, or its response carries no
\* total, the displayed total becomes T + delta.
C4_FallsBackToDelta ==
    [][(event'.op = "adjustResponse"
          /\ (~Succeeded(event'.resp) \/ ~CarriesTotal(event'.resp)))
         => totalText'[TakenCall.card] = totalText[TakenCall.card] + TakenCall.body.delta]_vars

\* ---- C5
\* C5: when a score-adjust response succeeds and carries a total, the
\* displayed total of the seat becomes that total.
C5_ServerTotalWins ==
    [][(event'.op = "adjustResponse" /\ Succeeded(event'.resp) /\ CarriesTotal(event'.resp))
         => totalText'[TakenCall.card] = event'.resp.json.total]_vars

\* A successful response with a total has been applied; no displayed total
\* plus or minus one gives it for every seat showing it, so it is no T + delta
\* of this display.
C5_Witness ==
    /\ event.op = "adjustResponse" /\ Succeeded(event.resp) /\ CarriesTotal(event.resp)
    /\ event.resp.json.total = 0 - MaxTotal
    /\ \E card \in cards : totalText[card] = event.resp.json.total
    /\ Cardinality(cards) = MaxSeats

\* ---- C6
\* C6, as stated: save-layout with an empty or whitespace-only name while no
\* saved layout is selected issues no call and reports the missing name.
C6_NoNameNoCall ==
    [][(event'.op = "saveClick"
          /\ Trim(layoutName) = ""
          /\ SelectValue(options, selectedIndex) = "")
         => /\ pending' = pending
            /\ event'.alert = "Enter a layout name first."]_vars

\* ---- C7
\* C7: save-layout with an empty name and a saved layout selected asks for
\* confirmation; declined, it issues no call and leaves the catalog and the
\* name input alone; accepted, it issues exactly one call, the save of the
\* selected layout's name with overwrite = true.
C7_ConfirmOverwrite ==
    [][(event'.op = "saveClick"
          /\ Trim(layoutName) = ""
          /\ SelectValue(options, selectedIndex) # "")
         => /\ event'.confirm \in {"accepted", "declined"}
            /\ event'.confirm = "declined"
                 => pending' = pending /\ UNCHANGED catalogVars
            /\ event'.confirm = "accepted"
                 => /\ InFlight' = InFlight + 1
                    /\ pending' = pending (+) SetToBag(
                          {[url |-> <<"layoutsSave", 0>>,
                            body |-> [name |-> options[selectedIndex].text,
                                      overwrite |-> TRUE]]})]_vars

\* The confirmation was declined with a saved layout selected and nothing in
\* flight.
C7_Witness ==
    /\ event.op = "saveClick" /\ event.confirm = "declined"
    /\ Trim(layoutName) = ""
    /\ SelectValue(options, selectedIndex) # ""
    /\ pending = EmptyBag

\* ---- C8
\* C8: a successful load-layout leaves the x, y and lock flag of every seat
\* the response has no entry for, gives every seat it has an entry for the
\* entry's x, y and lock flag, and changes nothing else for an entry that
\* matches no seat.
LoadedPositions(resp) ==
    IF resp.json # Unparseable /\ Has(resp.json, "positions") THEN resp.json.positions ELSE <<>>

C8_LoadAppliesPresentOnly ==
    [][(event'.op = "loadResponse" /\ Succeeded(event'.resp))
         => LET positions == LoadedPositions(event'.resp)
            IN  /\ cards' = cards
                /\ \A card \in cards :
                     LET entries == {i \in 1..Len(positions) : positions[i].user_id = UserId(card)}
                     IN  /\ entries = {}
                              => /\ styleLeft'[card] = styleLeft[card]
                                 /\ styleTop'[card] = styleTop[card]
                                 /\ locked'[card] = locked[card]
                         /\ \A i \in entries :
                              /\ Has(positions[i], "x") => styleLeft'[card] = positions[i].x
                              /\ Has(positions[i], "y") => styleTop'[card] = positions[i].y
                              /\ locked'[card] = positions[i].locked]_vars

\* A response with an entry for seat 1 and for a seat not on screen, none for
\* seat 2: seat 1 took its entry, seat 2 kept the position it was rendered at.
C8_Witness ==
    /\ event.op = "loadResponse" /\ Succeeded(event.resp)
    /\ cards = {1, 2}
    /\ LET positions == LoadedPositions(event.resp)
       IN  /\ \E i \in 1..Len(positions) : positions[i].user_id = 1 /\ Has(positions[i], "x")
           /\ \E i \in 1..Len(positions) : positions[i].user_id \notin cards
           /\ \A i \in 1..Len(positions) : positions[i].user_id # 2
    /\ styleLeft[1] = 0 - Far
    /\ styleLeft[2] = MaxExtent /\ styleTop[2] = 0

\* ---- C9
\* C9: a bulk lock sets the lock flag of every seat to the chosen boolean and
\* issues exactly one call, the course-scoped bulk_lock call, whatever the
\* number of seats.
C9_BulkLockOneCall ==
    [][event'.op = "bulkLock"
         => /\ locked' = [card \in cards |-> event'.flag]
            /\ InFlight' = InFlight + 1
            /\ pending' = pending (+) SetToBag(
                  {[url |-> <<"bulk_lock", 0>>, body |-> [locked |-> event'.flag]]})]_vars

\* Lock-all on a full canvas with one seat unlocked before it, one call in
\* flight for it.
C9_Witness ==
    /\ event.op = "bulkLock" /\ event.flag
    /\ Cardinality(cards) = MaxSeats
    /\ \A card \in cards : locked[card]
    /\ pending = SetToBag({[url |-> <<"bulk_lock", 0>>, body |-> [locked |-> TRUE]]})

\* ---- C10
\* C10: every seat carries at most one of the two score markers, and the one
\* it carries is the sign of its displayed total: pos above zero, neg below,
\* none at zero.
C10_ScoreClassIsSign ==
    \A card \in cards :
        classList[card] = IF totalText[card] > 0 THEN {"pos"}
                          ELSE IF totalText[card] < 0 THEN {"neg"}
                          ELSE {}

\* A response has just turned a seat negative while another seat is positive.
C10_Witness ==
    /\ event.op = "adjustResponse"
    /\ \E card \in cards : classList[card] = {"neg"}
    /\ \E card \in cards : classList[card] = {"pos"}

\* ---- C11
\* C11: in every reachable state every seat has 0 <= x <= surfaceWidth -
\* seatWidth and 0 <= y <= surfaceHeight - seatHeight, whatever drag moves,
\* resets and layout loads came before.
C11_SeatsWithinSurface ==
    \A card \in cards :
        /\ 0 <= styleLeft[card] /\ styleLeft[card] <= rect.width - offset.width
        /\ 0 <= styleTop[card] /\ styleTop[card] <= rect.height - offset.height

\* ---- C12
\* C12: when an update call (drag save, lock save) or a bulk-lock call fails,
\* the step that receives the failure leaves every seat's x, y and lock flag
\* as they were, issues no call, and leaves the page in the state a success
\* would have left: only the answered call is gone from those in flight.
C12_FailureOnlyLogged ==
    [][(event'.op \in {"updateResponse", "bulkLockResponse"} /\ event'.logged)
         => /\ styleLeft' = styleLeft /\ styleTop' = styleTop /\ locked' = locked
            /\ drag' = drag
            /\ UNCHANGED <<domVars, scoreVars, catalogVars>>
            /\ \E call \in Calls : pending' = Take(call)]_vars

\* The save of a seat dragged to x = 1 and then locked has failed, as has
\* every other call: the seat is still at x = 1 and locked.
C12_Witness ==
    /\ event.op = "updateResponse" /\ event.logged
    /\ pending = EmptyBag
    /\ 1 \in cards /\ styleLeft[1] = 1 /\ locked[1]
    /\ ~drag.active

\* ---- C13
\* C13: apiPost returns the payload exactly when the transport reports success
\* and the payload's ok is not false; otherwise it throws, with the payload's
\* error text as message when there is one and a message carrying the status
\* otherwise.  A body that does not parse counts as the empty payload.
C13_ApiPostContract ==
    event.op = "apiPost" =>
        LET resp == event.resp
            r == event.result
            payload == IF resp.json = Unparseable THEN <<>> ELSE resp.json
            marked == Has(payload, "ok") /\ payload.ok = FALSE
        IN  /\ ~r.threw <=> (resp.ok /\ ~marked)
            /\ ~r.threw => r.payload = payload
            /\ r.threw => r.message = IF Has(payload, "error") /\ payload.error # ""
                                      THEN [text |-> payload.error]
                                      ELSE [requestFailed |-> resp.status]

\* ---- C14
\* C14: load-layout while the select has no value (nothing selected, or the
\* placeholder) issues no call, changes no seat and alerts that a layout must
\* be selected.
C14_NoSelectionNoLoad ==
    [][(event'.op = "loadClick" /\ SelectValue(options, selectedIndex) = "")
         => /\ pending' = pending
            /\ styleLeft' = styleLeft /\ styleTop' = styleTop /\ locked' = locked
            /\ event'.alert = "Select a layout to load."]_vars

\* Load was clicked with the placeholder of a listed catalog selected
C14_Witness ==
    /\ event.op = "loadClick" /\ event.alert = "Select a layout to load."
    /\ Len(options) > 1 /\ selectedIndex = 1
    /\ cards # {}
    /\ pending = EmptyBag

\* ---- C15
\* C15: the step that receives a failed load response (transport failure or
\* payload with ok false) changes no seat's x, y or lock flag, whatever
\* positions the payload carries, and raises an alert; hence seats change
\* only on a successful response.
C15_FailedLoadAppliesNothing ==
    [][(event'.op = "loadResponse" /\ ~Succeeded(event'.resp))
         => /\ styleLeft' = styleLeft /\ styleTop' = styleTop /\ locked' = locked
            /\ event'.alert \in {[text |-> "denied"], [requestFailed |-> event'.resp.status]}]_vars

\* A rejected load whose payload carried a position for seat 1: the seat is
\* where it was rendered, unlocked, and the payload's error text was alerted.
C15_Witness ==
    /\ event.op = "loadResponse" /\ ~Succeeded(event.resp)
    /\ LoadedPositions(event.resp) # <<>>
    /\ event.alert = [text |-> "denied"]
    /\ 1 \in cards /\ styleLeft[1] = MaxExtent /\ ~locked[1]

\* ---- C16
\* C16: a pointer-move or pointer-up whose pointer id is not that of the
\* active session, or that finds no session, moves no seat, leaves the
\* session as it is and issues no call.
C16_StrayPointerIgnored ==
    [][(event'.op \in {"pointermove", "pointerup"}
          /\ (~drag.active \/ event'.pointerId # drag.id))
         => /\ styleLeft' = styleLeft /\ styleTop' = styleTop /\ locked' = locked
            /\ drag' = drag
            /\ pending' = pending]_vars

\* A pointer-up of another pointer arrived while seat 1 was being dragged, at
\* x = 1: the session is still there and nothing was saved.
C16_Witness ==
    /\ event.op = "pointerup"
    /\ drag.active /\ event.pointerId # drag.id
    /\ drag.card = 1 /\ styleLeft[1] = 1
    /\ pending = EmptyBag

\* ---- C17
\* C17: a visibility change during a session issues exactly one call, the
\* update of the session's seat with its current x and y and drag = true,
\* and leaves the session and every seat as they are, so that the moves and
\* the pointer-up that follow are handled as in any session; without a
\* session it issues no call.
C17_FlushKeepsSession ==
    [][event'.op = "visibilitychange"
         => /\ drag' = drag
            /\ styleLeft' = styleLeft /\ styleTop' = styleTop /\ locked' = locked
            /\ IF drag.active
               THEN pending' = pending (+) SetToBag(
                        {[url |-> <<"seatingUpdate", UserId(drag.card)>>,
                          body |-> [x |-> styleLeft[drag.card], y |-> styleTop[drag.card],
                                    drag |-> TRUE]]})
               ELSE pending' = pending]_vars

\* The tab was hidden while seat 1 was dragged, at x = 1: its position is on
\* its way to the server and the session goes on.
C17_Witness ==
    /\ event.op = "visibilitychange"
    /\ drag.active /\ drag.card = 1 /\ styleLeft[1] = 1
    /\ pending = SetToBag({[url |-> <<"seatingUpdate", 1>>,
                            body |-> [x |-> 1, y |-> 0, drag |-> TRUE]]})

\* ---- C18
\* C18: two saves of one seat may be answered in the reverse of the order
\* they were issued in, which leaves the server with the older position
\* (C18_Witness); and nothing corrects it: a call is issued only by a
\* pointer-up or a visibility change of an active session, never by the
\* continuation of a response and never while no session is active.
Issued == \E call \in BagToSet(pending') : CopiesIn(call, pending') > CopiesIn(call, pending)

C18_NoCorrectingCall ==
    [][Issued => (event'.op \in {"pointerup", "visibilitychange"} /\ drag.active)]_vars

\* Seat 1 is displayed at x = 0, no session is active and no call is in
\* flight, every call has succeeded, yet the one answered last stored x = 1:
\* it was issued before the save of x = 0 and answered after it.
C18_Witness ==
    /\ event.op = "updateResponse" /\ ~event.logged
    /\ pending = EmptyBag /\ ~drag.active
    /\ 1 \in cards /\ styleLeft[1] = 0 /\ stored[1].x = 1

\* ---- C19
\* C19: a click on a seat's lock button negates that seat's lock flag (so a
\* second click restores it), issues exactly one call, the update of that
\* seat with the new flag and the seat's x and y, and leaves the x and y of
\* every seat and the flag of every other seat unchanged.
C19_ToggleFlipsOneSeat ==
    [][event'.op = "lockClick"
         => LET card == event'.card
            IN  /\ locked'[card] = ~locked[card]
                /\ \A other \in cards \ {card} : locked'[other] = locked[other]
                /\ styleLeft' = styleLeft /\ styleTop' = styleTop
                /\ pending' = pending (+) SetToBag(
                       {[url |-> <<"seatingUpdate", UserId(card)>>,
                         body |-> [x |-> styleLeft[card], y |-> styleTop[card],
                                   locked |-> ~locked[card]]]})]_vars

\* Seat 2, put at (16, 16) by a reset, has just been locked: the call with
\* its position and the new flag is in flight, seat 1 is still unlocked.
C19_Witness ==
    /\ event.op = "lockClick" /\ event.card = 2
    /\ cards = {1, 2} /\ locked[2] /\ ~locked[1]
    /\ styleLeft[2] = ResetStep
    /\ CopiesIn([url |-> <<"seatingUpdate", 2>>,
                 body |-> [x |-> ResetStep, y |-> ResetStep, locked |-> TRUE]], pending) = 1

\* ---- C20
\* C20: in every reachable state the seat of the active session is unlocked.
C20_DraggedSeatUnlocked == drag.active => ~locked[drag.card]

\* ---- C21
\* C21: an active session ends, or passes to another pointer, only by the
\* pointer-up with its own pointer id, which issues the drag save of its
\* seat; a pointer-down with another pointer id never discards it.
C21_SessionEndsByItsPointerUp ==
    [][(drag.active /\ ~(drag'.active /\ drag'.id = drag.id))
         => /\ MatchingUp
            /\ pending' = pending (+) SetToBag({savePosition(drag.card, [drag |-> TRUE])})]_vars

====
